---- MODULE Spec2Model ----
(***************************************************************************)
(* Song-request lifecycle of dropmybeat-api: the SongRequest documents,    *)
(* the instance methods of the SongRequest model, its pre('save') hook,    *)
(* the seeder and the HTTP handlers of songRequestController.js, run by    *)
(* concurrent request handlers over one document store.                    *)
(*                                                                         *)
(* Storage semantics (Mongoose): findOne() hands the handler a private     *)
(* copy of the document; save() sends only the modified paths: a scalar    *)
(* as $set, an array push() as $push (the version __v is incremented but   *)
(* not compared), a reassigned array as $set of the whole array guarded    *)
(* by the version the copy was loaded at.  insertMany() validates and      *)
(* applies schema defaults but runs no pre('save') hook.                   *)
(***************************************************************************)
EXTENDS Naturals, Integers, Sequences, FiniteSets, TLC

VARIABLES
  persons,    \* Person collection: id -> [role, isActive]
  events,     \* Event collection: id -> [manager, status, maxSongsPerUser, allowDuplicates, Members]
  requests,   \* SongRequest collection: id -> document
  guests,     \* EventParticipant collection: set of [event, email, isApproved]
  proc,       \* the request handlers in flight: slot -> handler state
  res,        \* outcome of the handler that finished last
  emitted,    \* domain events emitted by the handler that finished last
  nops        \* number of handler invocations started so far

vars == <<persons, events, requests, guests, proc, res, emitted, nops>>

----------------------------------------------------------------------------
\* Bounds of the model.

\* number of calls explored with concurrent handlers
MaxOps == 2
\* concurrent request handlers
MaxProcs == 2
\* number of calls explored with one handler at a time
MaxCalls == 4
\* a maxSongsPerUser an event is updated to
SmallMax == 1

Procs == 1..MaxProcs

----------------------------------------------------------------------------
\* Program constants.

\* eventSchema.maxSongsPerUser default
DefaultMaxSongsPerUser == 5

\* a field that holds no value (undefined / null)
None == "none"
\* queuePosition not set: `!this.queuePosition` is true for it
NoPos == 0

SongStatus == {"Pending", "Approved", "Rejected", "Played", "Skipped"}
Role == {"Admin", "Manager", "Participant"}

----------------------------------------------------------------------------
\* The seeder's data.

SeedPersons ==
  [ adm |-> [role |-> "Admin",       isActive |-> TRUE, organizationName |-> None],
    m0  |-> [role |-> "Manager",     isActive |-> TRUE, organizationName |-> None],
    m1  |-> [role |-> "Manager",     isActive |-> TRUE, organizationName |-> None],
    p0  |-> [role |-> "Participant", isActive |-> TRUE, organizationName |-> None],
    p1  |-> [role |-> "Participant", isActive |-> TRUE, organizationName |-> None],
    p2  |-> [role |-> "Participant", isActive |-> TRUE, organizationName |-> None] ]

PersonIds == DOMAIN SeedPersons

\* maxMembers not set: `event.maxMembers &&` is false for it
NoMax == 0

\* the default of timeBombDuration, in minutes
DefaultTimeBombDuration == 30
\* a timeBombDuration that is not set
NoDuration == 0
\* the start and the end of a seeded event, the end after the start
SeedStart == 2
SeedEnd == 3

\* Schema defaults of an inserted event: status Draft, maxSongsPerUser 5,
\* allowDuplicates false, requiresApproval false, timeBombEnabled false,
\* timeBombDuration 30; `participants` and `maxParticipants` are not paths
\* of the schema and are dropped, so Members is empty and maxMembers is not
\* set.
NewEvent(mgr, public) ==
  [ manager |-> mgr, status |-> "Draft", isPublic |-> public,
    maxSongsPerUser |-> DefaultMaxSongsPerUser, allowDuplicates |-> FALSE,
    requiresApproval |-> FALSE, maxMembers |-> NoMax,
    Members |-> <<>>,
    startDate |-> SeedStart, endDate |-> SeedEnd,
    timeBombEnabled |-> FALSE, timeBombDuration |-> DefaultTimeBombDuration ]

SeedEvents ==
  [ e0 |-> [NewEvent("m0", TRUE) EXCEPT !.timeBombEnabled = TRUE,
                                        !.timeBombDuration = 120],
    e1 |-> NewEvent("m1", FALSE),
    e2 |-> [NewEvent("m0", TRUE) EXCEPT !.timeBombEnabled = TRUE,
                                        !.timeBombDuration = 180],
    e3 |-> NewEvent("m1", FALSE) ]

EventIds == DOMAIN SeedEvents

\* no date stored in a Date path
NoDate == 0
\* the minute the seeder runs in, and the minutes its TimeBomb lasts
SeededAt == 1
SeedBombMinutes == 5

\* A document as insertMany() stores it: the given fields plus the schema
\* defaults (status Pending, likeCount 0, no queuePosition, __v 0).
NewRequest(ev, by, song, extId, st, likes) ==
  [ event |-> ev, requestedBy |-> by, song |-> song, extId |-> extId,
    status |-> st, queuePosition |-> NoPos,
    likes |-> likes, likeCount |-> 0,
    updatedBy |-> None, rejectedBy |-> None, rejectionReason |-> None,
    playedBy |-> None, playDuration |-> None, v |-> 0,
    priority |-> 0, isTimeBomb |-> FALSE, timeBombExpiresAt |-> NoDate,
    createdAt |-> SeededAt ]

SeedRequests ==
  [ r1 |-> [NewRequest("e0", "p0", "BlindingLights", "sp1", "Approved", <<"p1", "p2">>)
              EXCEPT !.priority = 8],
    r2 |-> [NewRequest("e0", "p1", "Levitating",     "sp2", "Pending",  <<"p0">>)
              EXCEPT !.priority = 7],
    r3 |-> [NewRequest("e2", "p2", "OneMoreTime",    None,  "Approved", <<"p0", "p1", "p2">>)
              EXCEPT !.priority = 9],
    r4 |-> [NewRequest("e1", "p0", "Good4U",         None,  "Played",   <<>>)
              EXCEPT !.priority = 6],
    r5 |-> [NewRequest("e0", "p1", "IndustryBaby",  "yt5", "Rejected", <<>>)
              EXCEPT !.rejectionReason = "explicit"],
    r6 |-> [NewRequest("e2", "p2", "Stay",           None,  "Pending",  <<>>)
              EXCEPT !.priority = 5, !.isTimeBomb = TRUE,
                     !.timeBombExpiresAt = SeededAt + SeedBombMinutes] ]

RequestIds == DOMAIN SeedRequests

Empty == [x \in {} |-> None]

Idle == [pc |-> "idle"]

Init ==
  /\ persons = Empty
  /\ events = Empty
  /\ requests = Empty
  /\ guests = {}
  /\ proc = [p \in Procs |-> Idle]
  /\ res = None
  /\ emitted = <<>>
  /\ nops = 0

----------------------------------------------------------------------------
\* Instance methods of the SongRequest model, applied to a handler's copy.

hasUserLiked(doc, userId) ==
  \E i \in 1..Len(doc.likes) : doc.likes[i] = userId

\* addLike throws 'User has already liked this song' when the copy holds a
\* like of the user; otherwise it pushes the like.
addLike(doc, userId) ==
  [doc EXCEPT !.likes = Append(@, userId)]

removeLike(doc, userId) ==
  [doc EXCEPT !.likes = SelectSeq(@, LAMBDA l : l # userId)]

approve(doc, approvedBy) ==
  [doc EXCEPT !.status = "Approved", !.updatedBy = approvedBy]

reject(doc, rejectedBy, reason) ==
  [doc EXCEPT !.status = "Rejected", !.rejectedBy = rejectedBy,
              !.rejectionReason = reason, !.updatedBy = rejectedBy]

markAsPlayed(doc, playedBy, duration) ==
  [doc EXCEPT !.status = "Played", !.playedBy = playedBy,
              !.playDuration = duration, !.updatedBy = playedBy]

\* The method a handler in state pr runs on its copy pr.orig.
Modified(pr) ==
  CASE pr.op = "addLike"      -> addLike(pr.orig, pr.by)
    [] pr.op = "removeLike"   -> removeLike(pr.orig, pr.by)
    [] pr.op = "approve"      -> approve(pr.orig, pr.by)
    [] pr.op = "reject"       -> reject(pr.orig, pr.by, pr.arg)
    [] pr.op = "markAsPlayed" -> markAsPlayed(pr.orig, pr.by, pr.arg)

----------------------------------------------------------------------------
\* pre('save') hook.

Max(S) == CHOOSE x \in S : \A y \in S : y <= x

\* The hook's query: the stored Approved or Pending requests of the event,
\* highest queuePosition first.  No such request: position 1.  Otherwise
\* lastInQueue.queuePosition + 1, which is NaN when that request has no
\* queuePosition; the Number path refuses NaN and stays unset.
NextQueuePosition(ev) ==
  LET inQueue == {r \in DOMAIN requests :
                    /\ requests[r].event = ev
                    /\ requests[r].status \in {"Approved", "Pending"}}
      last == Max({requests[r].queuePosition : r \in inQueue})
  IN IF inQueue = {} THEN 1
     ELSE IF last = NoPos THEN NoPos ELSE last + 1

\* `!this.queuePosition && this.status === APPROVED`
NeedsQueuePosition(doc) ==
  doc.queuePosition = NoPos /\ doc.status = "Approved"

\* `this.isTimeBomb && !this.timeBombExpiresAt`
NeedsExpiry(doc) ==
  doc.isTimeBomb /\ doc.timeBombExpiresAt = NoDate

\* `event.timeBombDuration || 30`
FallbackBombMinutes == 30

\* The hook's Event.findById at the minute `now`: the event has TimeBomb
\* enabled and the expiry is now + its duration, or the expiry stays unset.
TimeBombExpiry(ev, now) ==
  IF ev \in DOMAIN events /\ events[ev].timeBombEnabled
    THEN now + (IF events[ev].timeBombDuration = NoDuration
                  THEN FallbackBombMinutes ELSE events[ev].timeBombDuration)
  ELSE NoDate

\* The copy as save() sends it: likeCount recomputed, the expiry tb and the
\* queuePosition qp assigned when the hook asked for them.
preSave(doc, tb, qp) ==
  [doc EXCEPT !.likeCount = Len(doc.likes),
              !.timeBombExpiresAt = IF NeedsExpiry(doc) THEN tb ELSE @,
              !.queuePosition = IF NeedsQueuePosition(doc) THEN qp ELSE @]

----------------------------------------------------------------------------
\* save(): the update sent for the modified paths of the copy.

ScalarPaths ==
  {"status", "queuePosition", "likeCount", "updatedBy", "rejectedBy",
   "rejectionReason", "playedBy", "playDuration", "timeBombExpiresAt"}

\* likes reassigned (removeLike): $set of the whole array, guarded by __v
LikesSet(pr, doc) == doc.likes # pr.orig.likes /\ pr.op # "addLike"
\* likes pushed (addLike): $push, __v incremented, not compared
LikesPush(pr, doc) == doc.likes # pr.orig.likes /\ pr.op = "addLike"

\* VersionError: the stored __v is not the one the copy was loaded at
VersionConflict(pr, doc, cur) == LikesSet(pr, doc) /\ cur.v # pr.orig.v

Updated(pr, doc, cur) ==
  [f \in DOMAIN cur |->
     IF f \in ScalarPaths
       THEN IF doc[f] # pr.orig[f] THEN doc[f] ELSE cur[f]
     ELSE IF f = "likes"
       THEN IF LikesPush(pr, doc) THEN Append(cur.likes, pr.by)
            ELSE IF LikesSet(pr, doc) THEN doc.likes
            ELSE cur.likes
     ELSE IF f = "v"
       THEN IF doc.likes # pr.orig.likes THEN cur.v + 1 ELSE cur.v
     ELSE cur[f]]

----------------------------------------------------------------------------
\* Route middleware.

\* a token of a stored person, active or not
protectStored(user) ==
  user \in DOMAIN persons

\* protect: a token of a stored, active person
protect(user) ==
  user \in DOMAIN persons /\ persons[user].isActive

\* authorize(...roles)
authorize(user, roles) == persons[user].role \in roles

\* managerEventAccess: Admin, or the Manager the event belongs to
managerEventAccess(user, ev) ==
  IF persons[user].role = "Admin" THEN "next"
  ELSE IF persons[user].role = "Manager"
    THEN IF ev \notin DOMAIN events THEN "NotFound"
         ELSE IF events[ev].manager # user THEN "Forbidden"
         ELSE "next"
  ELSE "Forbidden"

\* `event.Members.some(p => p.user === user && p.isApproved)`
isMember(user, ev) ==
  \E i \in 1..Len(events[ev].Members) :
    events[ev].Members[i].user = user /\ events[ev].Members[i].isApproved

\* the Guest's approved EventParticipant entry, looked up by email (a
\* person's email is the person's id here)
isEventParticipant(user, ev) ==
  /\ persons[user].role = "Guest"
  /\ ~isMember(user, ev)
  /\ \E g \in guests : g.event = ev /\ g.email = user /\ g.isApproved

\* eventParticipantAccess: Admin, the event's manager, or a Member / Manager
\* / Guest who joined the event
eventParticipantAccess(user, ev) ==
  IF ev \notin DOMAIN events THEN "NotFound"
  ELSE IF persons[user].role = "Admin" \/ events[ev].manager = user THEN "next"
  ELSE IF persons[user].role \in {"Member", "Manager", "Guest"}
    THEN IF ~isMember(user, ev) /\ ~isEventParticipant(user, ev)
           THEN "Forbidden" ELSE "next"
  ELSE "Forbidden"

----------------------------------------------------------------------------
\* Handlers.

CanStart(p) ==
  /\ proc[p].pc = "idle"
  /\ nops < MaxOps
  /\ \A q \in Procs : q < p => proc[q].pc # "idle"

Finish(p, outcome, events_out) ==
  /\ proc' = [proc EXCEPT ![p] = Idle]
  /\ res' = outcome
  /\ emitted' = events_out

Load(p, op, id, by, arg, handler) ==
  /\ proc' = [proc EXCEPT ![p] =
       [pc |-> "loaded", op |-> op, id |-> id, by |-> by, arg |-> arg,
        orig |-> requests[id], tb |-> NoDate, qp |-> NoPos,
        handler |-> handler]]
  /\ UNCHANGED <<res, emitted>>

\* A caller of the model loads a request and calls addLike / removeLike on
\* it.
CallAddLike(p, id, userId) ==
  /\ CanStart(p)
  /\ id \in DOMAIN requests
  /\ Load(p, "addLike", id, userId, None, FALSE)
  /\ nops' = nops + 1
  /\ UNCHANGED <<persons, events, requests, guests>>

CallRemoveLike(p, id, userId) ==
  /\ CanStart(p)
  /\ id \in DOMAIN requests
  /\ Load(p, "removeLike", id, userId, None, FALSE)
  /\ nops' = nops + 1
  /\ UNCHANGED <<persons, events, requests, guests>>

\* PUT /:id/mark-played: protect, authorize('Admin', 'Manager'); the
\* controller defines no handler of the name the route gives, what runs
\* behind the route's middleware here is the model's markAsPlayed.
CallMarkAsPlayed(p, id, playedBy) ==
  /\ CanStart(p)
  /\ id \in DOMAIN requests
  /\ IF ~protect(playedBy) THEN Finish(p, "Unauthorized", <<>>)
     ELSE IF ~authorize(playedBy, {"Admin", "Manager"})
       THEN Finish(p, "Forbidden", <<>>)
     ELSE Load(p, "markAsPlayed", id, playedBy, "d", FALSE)
  /\ nops' = nops + 1
  /\ UNCHANGED <<persons, events, requests, guests>>

\* A handler that answers without an await between its reads and its answer.
Respond(outcome) ==
  /\ nops' = nops + 1
  /\ res' = outcome
  /\ emitted' = <<>>
  /\ UNCHANGED <<persons, events, requests, guests, proc>>

\* findOne({ _id: id, event: eventId })
FindInEvent(id, ev) ==
  id \in DOMAIN requests /\ requests[id].event = ev

\* POST /:id/approve: protect, managerEventAccess, approveSongRequest
approveSongRequest(p, user, ev, id) ==
  /\ CanStart(p)
  /\ nops' = nops + 1
  /\ IF ~protect(user) THEN Finish(p, "Unauthorized", <<>>)
     ELSE IF managerEventAccess(user, ev) # "next"
       THEN Finish(p, managerEventAccess(user, ev), <<>>)
     ELSE IF ~FindInEvent(id, ev) THEN Finish(p, "NotFound", <<>>)
     ELSE Load(p, "approve", id, user, None, TRUE)
  /\ UNCHANGED <<persons, events, requests, guests>>

\* POST /:id/reject: protect, managerEventAccess, rejectSongRequest
rejectSongRequest(p, user, ev, id, reason) ==
  /\ CanStart(p)
  /\ nops' = nops + 1
  /\ IF ~protect(user) THEN Finish(p, "Unauthorized", <<>>)
     ELSE IF managerEventAccess(user, ev) # "next"
       THEN Finish(p, managerEventAccess(user, ev), <<>>)
     ELSE IF ~FindInEvent(id, ev) THEN Finish(p, "NotFound", <<>>)
     ELSE Load(p, "reject", id, user, reason, TRUE)
  /\ UNCHANGED <<persons, events, requests, guests>>

\* POST /:id/like: protect, eventParticipantAccess, toggleLike.  The handler
\* reads event.participants, which is not a path of the Event schema:
\* `undefined.includes` throws before the request is looked up.
toggleLike(user, ev, id) ==
  /\ Respond(IF ~protect(user) THEN "Unauthorized"
             ELSE IF eventParticipantAccess(user, ev) # "next"
               THEN eventParticipantAccess(user, ev)
             ELSE "TypeError")

\* PUT /:id: protect, eventParticipantAccess, updateSongRequest.  After the
\* lookup the handler reads event.managers, which is not a path of the
\* Event schema: `undefined.includes` throws before the update.
updateSongRequest(user, ev, id) ==
  /\ Respond(IF ~protect(user) THEN "Unauthorized"
             ELSE IF eventParticipantAccess(user, ev) # "next"
               THEN eventParticipantAccess(user, ev)
             ELSE IF ~FindInEvent(id, ev) THEN "NotFound"
             ELSE "TypeError")

\* DELETE /:id: protect, eventParticipantAccess, deleteSongRequest; throws
\* on event.managers like updateSongRequest, before deleteOne().
deleteSongRequest(user, ev, id) ==
  /\ Respond(IF ~protect(user) THEN "Unauthorized"
             ELSE IF eventParticipantAccess(user, ev) # "next"
               THEN eventParticipantAccess(user, ev)
             ELSE IF ~FindInEvent(id, ev) THEN "NotFound"
             ELSE "TypeError")

\* virtual isActive: status === 'Active'
isActive(ev) == events[ev].status = "Active"

\* POST /: protect, eventParticipantAccess, createSongRequest.  Past the
\* isActive test the handler reads event.participants and throws; the
\* duplicate lookup, the count and SongRequest.create() are never reached.
createSongRequest(user, ev, song) ==
  /\ Respond(IF ~protect(user) THEN "Unauthorized"
             ELSE IF eventParticipantAccess(user, ev) # "next"
               THEN eventParticipantAccess(user, ev)
             ELSE IF ~isActive(ev) THEN "NotActive"
             ELSE "TypeError")

----------------------------------------------------------------------------
\* Event and person handlers.

\* `req.user.role !== 'Admin' && req.user.id !== event.manager`
NotManagerOf(user, ev) ==
  persons[user].role # "Admin" /\ user # events[ev].manager

\* protect, managerEventAccess and the handler's own checks
EventGate(user, ev) ==
  IF ~protect(user) THEN "Unauthorized"
  ELSE IF managerEventAccess(user, ev) # "next" THEN managerEventAccess(user, ev)
  ELSE IF ev \notin DOMAIN events THEN "NotFound"
  ELSE IF NotManagerOf(user, ev) THEN "Forbidden"
  ELSE "OK"

\* eventSchema.pre('save'): the save of a document whose start is not before
\* its end, or whose TimeBomb is enabled without a duration, is refused
eventPreSave(doc) ==
  IF doc.startDate >= doc.endDate THEN "SaveError"
  ELSE IF doc.timeBombEnabled /\ doc.timeBombDuration = NoDuration
    THEN "SaveError"
  ELSE "OK"

\* the answer of a handler that passes the gate and then saves the event
GateThenSave(user, ev) ==
  IF EventGate(user, ev) # "OK" THEN EventGate(user, ev)
  ELSE eventPreSave(events[ev])

\* PUT /api/events/:id/activate
activateEvent(user, ev) ==
  /\ nops < MaxCalls
  /\ nops' = nops + 1
  /\ res' = GateThenSave(user, ev)
  /\ emitted' = <<>>
  /\ events' = IF GateThenSave(user, ev) = "OK"
                 THEN [events EXCEPT ![ev].status = "Active"] ELSE events
  /\ UNCHANGED <<persons, requests, guests, proc>>

\* PUT /api/events/:id/deactivate
deactivateEvent(user, ev) ==
  /\ nops < MaxCalls
  /\ nops' = nops + 1
  /\ res' = GateThenSave(user, ev)
  /\ emitted' = <<>>
  /\ events' = IF GateThenSave(user, ev) = "OK"
                 THEN [events EXCEPT ![ev].status = "Draft"] ELSE events
  /\ UNCHANGED <<persons, requests, guests, proc>>

\* the new manager named by the body fails the handler's validation
BadManager(ev, body) ==
  IF "manager" \in DOMAIN body /\ body.manager # events[ev].manager
    THEN IF body.manager \notin DOMAIN persons THEN "NotFound"
         ELSE IF persons[body.manager].role \notin {"Admin", "Manager"}
           THEN "BadRequest" ELSE "OK"
  ELSE "OK"

\* the body as it was sent
Untouched(body, fields) == body

\* the body without the fields the handler deletes from it
Without(body, fields) ==
  [f \in DOMAIN body \ fields |-> body[f]]

\* findByIdAndUpdate(id, body): the fields of the body replace the stored ones
Patched(doc, body) ==
  [f \in DOMAIN doc |-> IF f \in DOMAIN body THEN body[f] ELSE doc[f]]

\* PUT /api/events/:id
updateEvent(user, ev, body) ==
  LET sent == IF EventGate(user, ev) = "OK" /\ persons[user].role # "Admin"
                THEN Without(body, {"manager"}) ELSE body
      out == IF EventGate(user, ev) # "OK" THEN EventGate(user, ev)
             ELSE BadManager(ev, sent)
  IN
  /\ nops < MaxCalls
  /\ nops' = nops + 1
  /\ res' = out
  /\ emitted' = <<>>
  /\ events' = IF out = "OK" THEN [events EXCEPT ![ev] = Patched(@, sent)]
               ELSE events
  /\ UNCHANGED <<persons, requests, guests, proc>>

\* validatePersonUpdate: role is one of Admin, Manager, Member
validatePersonUpdate(body) ==
  "role" \in DOMAIN body => body.role \in {"Admin", "Manager", "Member"}

\* PUT /api/persons/:id: protect, validatePersonUpdate, updatePerson; the
\* update runs the schema validators, whose role enum is Role
updatePerson(user, target, body) ==
  LET admin == persons[user].role = "Admin"
      sent == IF admin THEN body ELSE Without(body, {"role", "isActive"})
      out == IF ~protect(user) THEN "Unauthorized"
             ELSE IF ~validatePersonUpdate(body) THEN "BadRequest"
             ELSE IF target \notin DOMAIN persons THEN "NotFound"
             ELSE IF ~admin /\ user # target THEN "Forbidden"
             ELSE IF "role" \in DOMAIN sent /\ sent.role \notin Role
               THEN "ValidationError"
             ELSE "OK"
  IN
  /\ nops < MaxCalls
  /\ nops' = nops + 1
  /\ res' = out
  /\ emitted' = <<>>
  /\ persons' = IF out = "OK" THEN [persons EXCEPT ![target] = Patched(@, sent)]
                ELSE persons
  /\ UNCHANGED <<events, requests, guests, proc>>

\* the checks of joinEvent on the document it loaded
JoinChecks(user, doc) ==
  LET alreadyJoined == \E i \in 1..Len(doc.Members) :
                         doc.Members[i].user = user
  IN IF doc.status # "Active" THEN "NotActive"
     ELSE IF ~doc.isPublic /\ persons[user].role = "Member" THEN "Forbidden"
     ELSE IF alreadyJoined THEN "AlreadyJoined"
     ELSE IF doc.maxMembers # NoMax /\ Len(doc.Members) >= doc.maxMembers
       THEN "Full"
     ELSE "OK"

\* protect, authorize('Manager','Admin','Member') and the lookup of the event
JoinGate(user, ev) ==
  IF ~protect(user) THEN "Unauthorized"
  ELSE IF ~authorize(user, {"Manager", "Admin", "Member"}) THEN "Forbidden"
  ELSE IF ev \notin DOMAIN events THEN "NotFound"
  ELSE "OK"

\* POST /api/events/:id/join: protect, authorize('Manager','Admin','Member'),
\* joinEvent, run without another handler in between.  The pushed roster
\* entry takes the schema default isApproved true.
joinEvent(user, ev) ==
  LET out == IF JoinGate(user, ev) # "OK" THEN JoinGate(user, ev)
             ELSE IF JoinChecks(user, events[ev]) # "OK"
               THEN JoinChecks(user, events[ev])
             ELSE eventPreSave(events[ev])
  IN
  /\ nops < MaxCalls
  /\ nops' = nops + 1
  /\ res' = out
  /\ emitted' = <<>>
  /\ events' = IF out = "OK"
                 THEN [events EXCEPT ![ev].Members =
                         Append(@, [user |-> user, isApproved |-> TRUE])]
                 ELSE events
  /\ UNCHANGED <<persons, requests, guests, proc>>

\* EventParticipant.MemberExists(eventId, email, lastName)
MemberExists(ev, email) ==
  \E g \in guests : g.event = ev /\ g.email = email

\* a guest entry created with the schema default of isApproved
GuestApprovalDefault(ev) == TRUE

\* `isApproved: !event.requiresApproval`
GuestApproval(ev) == ~events[ev].requiresApproval

\* POST /api/events/:id/join-guest: no middleware that identifies the
\* caller; joinEventAsGuest with a complete body (an email stands for the
\* email and last name)
joinEventAsGuest(email, ev) ==
  LET out == IF ev \notin DOMAIN events THEN "NotFound"
             ELSE IF ~isActive(ev) THEN "NotActive"
             ELSE IF ~events[ev].isPublic THEN "Forbidden"
             ELSE IF MemberExists(ev, email) THEN "AlreadyJoined"
             ELSE IF events[ev].maxMembers # NoMax
                     /\ Cardinality({g \in guests : g.event = ev})
                          >= events[ev].maxMembers
               THEN "Full"
             ELSE "Created"
  IN
  /\ nops < MaxCalls
  /\ nops' = nops + 1
  /\ res' = out
  /\ emitted' = <<>>
  /\ guests' = IF out = "Created"
                 THEN guests \cup {[event |-> ev, email |-> email,
                                    isApproved |-> GuestApproval(ev)]}
                 ELSE guests
  /\ UNCHANGED <<persons, events, requests, proc>>

\* addLike on a copy that already holds the user's like throws.
AddLikeThrows(p) ==
  /\ proc[p].pc = "loaded"
  /\ proc[p].op = "addLike"
  /\ hasUserLiked(proc[p].orig, proc[p].by)
  /\ Finish(p, "AlreadyLiked", <<>>)
  /\ UNCHANGED <<persons, events, requests, guests, nops>>

\* the minutes Date.now() of the hook may give
HookClock == {SeededAt, SeededAt + 1}

\* the instants the hook of the handler in state pr reads the clock at: it
\* reads it only when it sets an expiry
HookNows(pr) ==
  IF NeedsExpiry(Modified(pr)) THEN HookClock ELSE {NoDate}

\* The hook's reads for a copy that needs a queue position: the event for
\* the expiry, then the findOne for the queue position, one await before
\* the write.
PreSaveQuery(p) ==
  /\ proc[p].pc = "loaded"
  /\ NeedsQueuePosition(Modified(proc[p]))
  /\ \E now \in HookNows(proc[p]) :
       proc' = [proc EXCEPT
                  ![p].pc = "hooked",
                  ![p].tb = TimeBombExpiry(proc[p].orig.event, now),
                  ![p].qp = NextQueuePosition(proc[p].orig.event)]
  /\ UNCHANGED <<persons, events, requests, guests, res, emitted, nops>>

\* What the controller does once save() resolved: the chained populate()
\* either passes (populate returns the document) and the domain event is
\* emitted, or throws (populate returns a promise) and the handler ends
\* in the error middleware with the write already made.
AfterSave(pr, populated) ==
  IF ~pr.handler THEN <<"saved", <<>>>>
  ELSE IF ~populated THEN <<"TypeError", <<>>>>
  ELSE IF pr.op = "approve" THEN <<"OK", <<"songRequestApproved">>>>
  ELSE <<"OK", <<"songRequestRejected">>>>

\* The rest of save(): for a copy that needs no queue position the hook
\* reads the event for the expiry here; then the update is sent.
Save(p) ==
  LET pr == proc[p] IN
  /\ \/ pr.pc = "hooked"
     \/ /\ pr.pc = "loaded"
        /\ ~NeedsQueuePosition(Modified(pr))
        /\ ~(pr.op = "addLike" /\ hasUserLiked(pr.orig, pr.by))
  /\ \E now \in (IF pr.pc = "hooked" THEN {NoDate} ELSE HookNows(pr)) :
       LET tb == IF pr.pc = "hooked" THEN pr.tb
                 ELSE TimeBombExpiry(pr.orig.event, now)
           doc == preSave(Modified(pr), tb, pr.qp)
       IN IF VersionConflict(pr, doc, requests[pr.id])
            THEN /\ Finish(p, "VersionError", <<>>)
                 /\ UNCHANGED requests
          ELSE
            /\ requests' = [requests EXCEPT ![pr.id] = Updated(pr, doc, @)]
            /\ \E populated \in BOOLEAN :
                 Finish(p, AfterSave(pr, populated)[1],
                        AfterSave(pr, populated)[2])
  /\ UNCHANGED <<persons, events, guests, nops>>

\* seedData: clears the three collections and inserts the sample documents
\* with insertMany().
seedData ==
  /\ DOMAIN persons = {}
  /\ persons' = SeedPersons
  /\ events' = SeedEvents
  /\ requests' = SeedRequests
  /\ UNCHANGED <<guests, proc, res, emitted, nops>>

\* Inputs of the handlers.
LikeUsers == {"p1", "adm"}
Players == {"m0", "p0"}
Reasons == {"explicit"}
Songs == {[title |-> "BlindingLights", extId |-> "sp1"],
          [title |-> "Sandstorm", extId |-> None]}

Next ==
  \/ seedData
  \/ \E p \in Procs, id \in RequestIds :
       \/ \E u \in LikeUsers : CallAddLike(p, id, u)
       \/ \E u \in LikeUsers : CallRemoveLike(p, id, u)
       \/ \E u \in Players : CallMarkAsPlayed(p, id, u)
       \/ \E u \in PersonIds, e \in EventIds : approveSongRequest(p, u, e, id)
       \/ \E u \in PersonIds, e \in EventIds, why \in Reasons :
            rejectSongRequest(p, u, e, id, why)
  \/ \E u \in PersonIds, e \in EventIds, id \in RequestIds :
       /\ nops < MaxOps
       /\ \/ toggleLike(u, e, id)
          \/ updateSongRequest(u, e, id)
          \/ deleteSongRequest(u, e, id)
  \/ \E p \in Procs :
       \/ AddLikeThrows(p)
       \/ PreSaveQuery(p)
       \/ Save(p)

Spec == Init /\ [][Next]_vars

EventBodies == {[maxSongsPerUser |-> SmallMax], [allowDuplicates |-> TRUE],
                [manager |-> "p0"], [requiresApproval |-> TRUE]}
\* the persons whose profile is updated
PersonTargets == {"p0", "m1"}
\* the requests liked through the handler
LikedRequests == {"r1", "r4"}
\* emails of guests: the email of person p0 and one of no person
GuestEmails == {"p0", "g0"}
PersonBodies == {[role |-> "Admin"], [role |-> "Manager"], [role |-> "Member"]}

\* Event configuration, roles and song-request creation.
NextCreate ==
  \/ seedData
  \/ \E u \in PersonIds, e \in EventIds :
       \/ activateEvent(u, e)
       \/ deactivateEvent(u, e)
       \/ \E body \in EventBodies : updateEvent(u, e, body)
       \/ \E song \in Songs : nops < MaxCalls /\ createSongRequest(u, e, song)
       \/ \E id \in LikedRequests : nops < MaxCalls /\ toggleLike(u, e, id)
       \/ joinEvent(u, e)
  \/ \E email \in GuestEmails, e \in EventIds : joinEventAsGuest(email, e)
  \/ \E u \in PersonIds, target \in PersonTargets, body \in PersonBodies :
       updatePerson(u, target, body)

SpecCreate == Init /\ [][NextCreate]_vars
----------------------------------------------------------------------------
\* Properties.

\* the handler in slot p returns in this step
Returns(p) ==
  proc[p].pc \in {"loaded", "hooked"} /\ proc'[p].pc = "idle"

\* the handler in slot p runs `op` and returns in this step
ReturnsFrom(p, op) ==
  Returns(p) /\ proc[p].op = op

Terminal == {"Rejected", "Played", "Skipped"}

\* user passed protect and eventParticipantAccess for the event
Participates(user, ev) ==
  protect(user) /\ eventParticipantAccess(user, ev) = "next"

\* C1: every stored request's likeCount is the number of entries of its
\* likes, requests inserted with a pre-filled likes list included.
LikeCountIsLikes ==
  \A r \in DOMAIN requests : requests[r].likeCount = Len(requests[r].likes)

\* C2: no user appears twice in the likes of a stored request, whatever the
\* interleaving of the like and unlike calls.
LikesAreUnique ==
  \A r \in DOMAIN requests :
    \A i, j \in 1..Len(requests[r].likes) :
      i # j => requests[r].likes[i] # requests[r].likes[j]

\* C3: a like by a user whose like the request already holds (the second of
\* two likes in a row) does not fail and takes the like out again, which
\* returns the request to its state before the first like: for the like
\* handler called by an approved participant, and for the model's like
\* method.
SecondLikeUnlikes ==
  [][ /\ \A u \in PersonIds, e \in EventIds, id \in RequestIds :
           ( /\ toggleLike(u, e, id)
             /\ Participates(u, e)
             /\ FindInEvent(id, e)
             /\ hasUserLiked(requests[id], u) )
           => /\ res' = "OK"
              /\ ~hasUserLiked(requests'[id], u)
              /\ requests'[id].likeCount = Len(requests'[id].likes)
      /\ \A p \in Procs :
           (ReturnsFrom(p, "addLike") /\ hasUserLiked(proc[p].orig, proc[p].by))
           => /\ res' = "saved"
              /\ ~hasUserLiked(requests'[proc[p].id], proc[p].by)
    ]_vars

\* C4: an approve, reject or mark-played called on a request that is
\* Rejected, Played or Skipped fails with InvalidTransition and leaves the
\* stored request as it was.
TerminalIsFinal ==
  [][ \A p \in Procs :
        ( /\ Returns(p)
          /\ proc[p].op \in {"approve", "reject", "markAsPlayed"}
          /\ proc[p].orig.status \in Terminal )
        => res' = "InvalidTransition" /\ requests' = requests
    ]_vars

\* C5: an approve called on a request that is already Approved is refused,
\* changes nothing in the stored request and emits no songRequestApproved.
ApproveOnlyPending ==
  [][ \A p \in Procs :
        (ReturnsFrom(p, "approve") /\ proc[p].orig.status # "Pending")
        => /\ res' \notin {"OK", "saved"}
           /\ requests' = requests
           /\ emitted' = <<>>
    ]_vars

\* C6: a stored request becomes Played only from Approved, and a
\* mark-played called on a request that is not Approved fails and leaves
\* the stored request as it was.
PlayedOnlyFromApproved ==
  [][ /\ \A r \in DOMAIN requests :
           (requests[r].status # "Played" /\ requests'[r].status = "Played")
           => requests[r].status = "Approved"
      /\ \A p \in Procs :
           (ReturnsFrom(p, "markAsPlayed") /\ proc[p].orig.status # "Approved")
           => res' # "saved" /\ requests' = requests
    ]_vars

\* C7: a request that becomes Approved gets a queuePosition above that of
\* every request of the event approved before it, and different from every
\* queuePosition a request of the event holds.
QueuePositionsIncrease ==
  [][ \A b \in DOMAIN requests :
        (requests[b].status # "Approved" /\ requests'[b].status = "Approved")
        => \A a \in DOMAIN requests \ {b} :
             requests[a].event = requests[b].event
             => /\ requests[a].status = "Approved"
                     => requests[a].queuePosition < requests'[b].queuePosition
                /\ requests[a].queuePosition # requests'[b].queuePosition
    ]_vars

\* C8: queuePosition is unset until the request first becomes Approved, is
\* set by the step that makes it Approved, and a set queuePosition never
\* changes.
QueuePositionSetOnce ==
  [][ \A r \in DOMAIN requests :
        /\ (requests[r].status # "Approved" /\ requests'[r].status = "Approved")
             => requests'[r].queuePosition # NoPos
        /\ requests[r].queuePosition # NoPos
             => requests'[r].queuePosition = requests[r].queuePosition
        /\ requests'[r].queuePosition # requests[r].queuePosition
             => requests[r].status # "Approved" /\ requests'[r].status = "Approved"
    ]_vars

\* the user's Pending or Approved requests in the event
Outstanding(user, ev) ==
  {r \in DOMAIN requests : /\ requests[r].event = ev
                           /\ requests[r].requestedBy = user
                           /\ requests[r].status \in {"Pending", "Approved"}}

\* the user's Rejected or Played requests in the event
Released(user, ev) ==
  {r \in DOMAIN requests : /\ requests[r].event = ev
                           /\ requests[r].requestedBy = user
                           /\ requests[r].status \in {"Rejected", "Played"}}

\* a request with the song's external id or its title
SameSong(r, song) ==
  \/ song.extId # None /\ requests[r].extId = song.extId
  \/ requests[r].song = song.title

\* the user's requests in the event that are not Rejected and ask for the song
Duplicates(user, ev, song) ==
  {r \in DOMAIN requests : /\ requests[r].event = ev
                           /\ requests[r].requestedBy = user
                           /\ requests[r].status # "Rejected"
                           /\ SameSong(r, song)}

\* C9: a createSongRequest by a participant U of an active event E who has
\* maxSongsPerUser outstanding requests in E fails with LimitExceeded and
\* creates nothing; a U below the cap who has a Rejected or Played request
\* and asks for a new song creates a request.
LimitPerUser ==
  [][ \A u \in PersonIds, e \in EventIds, song \in Songs :
        (createSongRequest(u, e, song) /\ Participates(u, e) /\ isActive(e))
        => /\ Cardinality(Outstanding(u, e)) >= events[e].maxSongsPerUser
                => res' = "LimitExceeded" /\ requests' = requests
           /\ ( /\ Cardinality(Outstanding(u, e)) < events[e].maxSongsPerUser
                /\ Released(u, e) # {}
                /\ Duplicates(u, e, song) = {} )
                => res' = "Created" /\ DOMAIN requests' # DOMAIN requests
    ]_vars

\* C10: a createSongRequest by a participant U of an active event fails
\* with DuplicateRequest exactly when the event has allowDuplicates false
\* and U has a request of the event that is not Rejected and asks for the
\* same song.
DuplicateRefused ==
  [][ \A u \in PersonIds, e \in EventIds, song \in Songs :
        (createSongRequest(u, e, song) /\ Participates(u, e) /\ isActive(e))
        => ( res' = "DuplicateRequest"
             <=> (~events[e].allowDuplicates /\ Duplicates(u, e, song) # {}) )
    ]_vars
\* the user has an approved roster entry or an approved guest entry (by
\* email) of the event
ApprovedParticipant(user, ev) ==
  \/ \E i \in 1..Len(events[ev].Members) :
       events[ev].Members[i].user = user /\ events[ev].Members[i].isApproved
  \/ \E g \in guests : g.event = ev /\ g.email = user /\ g.isApproved

\* the user joined the event and is not approved
UnapprovedParticipant(user, ev) ==
  /\ \/ \E i \in 1..Len(events[ev].Members) : events[ev].Members[i].user = user
     \/ \E g \in guests : g.event = ev /\ g.email = user
  /\ ~ApprovedParticipant(user, ev)

\* a create or a like called by the user for the event
CreatesOrLikes(user, ev) ==
  \/ \E song \in Songs : createSongRequest(user, ev, song)
  \/ \E id \in LikedRequests : toggleLike(user, ev, id)

\* C11: a create or like by a participant who is not approved for the event
\* (and has no access as Admin or as the event's manager) fails with
\* Forbidden and changes nothing; for an approved participant it is not
\* refused as Forbidden.
ApprovalGatesParticipants ==
  [][ \A u \in PersonIds, e \in EventIds :
        (CreatesOrLikes(u, e) /\ protect(u) /\ e \in DOMAIN events)
        => /\ ( /\ UnapprovedParticipant(u, e)
                /\ persons[u].role # "Admin"
                /\ events[e].manager # u )
                => /\ res' = "Forbidden"
                   /\ UNCHANGED <<persons, events, requests, guests>>
           /\ ApprovedParticipant(u, e) => res' # "Forbidden"
    ]_vars
\* C12: a guest join stores an EventParticipant whose isApproved is the
\* negation of the event's requiresApproval at the join.
GuestApprovalFollowsEvent ==
  [][ \A g \in guests' \ guests :
        g.isApproved = ~events[g.event].requiresApproval
    ]_vars

\* a guest joined an event that requires approval and one that does not
GuestJoinedUnapproved ==
  \E g \in guests : ~g.isApproved /\ events[g.event].requiresApproval
\* the operations of a song request reserved to the event's manager
ManagerOps == {"approve", "reject", "markAsPlayed"}

\* the user is Admin or the manager of the event
ManagesEvent(user, ev) ==
  persons[user].role = "Admin" \/ events[ev].manager = user

----------------------------------------------------------------------------
\* Person administration, the profile route and callers without a session.

\* adminOnly
adminOnly(user) == persons[user].role = "Admin"

\* protect, adminOnly and the lookup of the person the route names
PersonGate(user, target) ==
  IF ~protect(user) THEN "Unauthorized"
  ELSE IF ~adminOnly(user) THEN "Forbidden"
  ELSE IF target \notin DOMAIN persons THEN "NotFound"
  ELSE "OK"

\* PUT /api/persons/:id/deactivate
deactivatePerson(user, target) ==
  LET out == IF PersonGate(user, target) # "OK" THEN PersonGate(user, target)
             ELSE IF user = target THEN "BadRequest"
             ELSE "OK"
  IN
  /\ nops < MaxCalls
  /\ nops' = nops + 1
  /\ res' = out
  /\ emitted' = <<>>
  /\ persons' = IF out = "OK" THEN [persons EXCEPT ![target].isActive = FALSE]
                ELSE persons
  /\ UNCHANGED <<events, requests, guests, proc>>

\* PUT /api/persons/:id/activate
activatePerson(user, target) ==
  /\ nops < MaxCalls
  /\ nops' = nops + 1
  /\ res' = PersonGate(user, target)
  /\ emitted' = <<>>
  /\ persons' = IF PersonGate(user, target) = "OK"
                  THEN [persons EXCEPT ![target].isActive = TRUE]
                  ELSE persons
  /\ UNCHANGED <<events, requests, guests, proc>>

\* DELETE /api/persons/:id: person.deleteOne()
deletePerson(user, target) ==
  LET out == IF PersonGate(user, target) # "OK" THEN PersonGate(user, target)
             ELSE IF user = target THEN "BadRequest"
             ELSE "OK"
  IN
  /\ nops < MaxCalls
  /\ nops' = nops + 1
  /\ res' = out
  /\ emitted' = <<>>
  /\ persons' = IF out = "OK"
                  THEN [x \in DOMAIN persons \ {target} |-> persons[x]]
                  ELSE persons
  /\ UNCHANGED <<events, requests, guests, proc>>

\* allowedFields of updateProfile: the fields of the body the update keeps
\* (of the six, organizationName is the one carried here)
AllowedFields(body) ==
  [f \in DOMAIN body \cap {"firstName", "lastName", "phoneNumber", "dateOfBirth",
                           "favoriteGenres", "organizationName"} |-> body[f]]

\* PUT /api/auth/profile: protect, updateProfile
updateProfile(user, body) ==
  /\ nops < MaxCalls
  /\ nops' = nops + 1
  /\ res' = IF ~protect(user) THEN "Unauthorized" ELSE "OK"
  /\ emitted' = <<>>
  /\ persons' = IF protect(user)
                  THEN [persons EXCEPT ![user] = Patched(@, AllowedFields(body))]
                  ELSE persons
  /\ UNCHANGED <<events, requests, guests, proc>>

\* optionalAuth: req.user is the stored person of the token, if any
optionalAuth(user) == user \in DOMAIN persons

\* A handler that reads only.
View(outcome) ==
  /\ nops < MaxCalls
  /\ Respond(outcome)

\* GET /api/events/:id: optionalAuth, getEvent.  The event is loaded with
\* its manager populated: event.manager is the manager's document, null if
\* that person is gone, and its toString() is never the id.
getEvent(user, ev) ==
  /\ View(IF ev \notin DOMAIN events THEN "NotFound"
          ELSE IF ~optionalAuth(user)
            THEN IF ~events[ev].isPublic THEN "Forbidden" ELSE "OK"
          ELSE IF persons[user].role = "Admin" THEN "OK"
          ELSE IF persons[user].role = "Manager"
            THEN IF events[ev].isPublic THEN "OK"
                 ELSE IF events[ev].manager \notin DOMAIN persons THEN "TypeError"
                 ELSE "Forbidden"
          ELSE IF ~events[ev].isPublic THEN "Forbidden"
          ELSE "OK")

\* the access check of getSongRequests, getSongRequest and getEventQueue:
\* `!event.isPublic && (!req.user || !event.participants.includes(...))`,
\* where event.participants is not a path of the Event schema
ViewAccess(user, ev) ==
  IF ev \notin DOMAIN events THEN "NotFound"
  ELSE IF events[ev].isPublic THEN "next"
  ELSE IF ~optionalAuth(user) THEN "Forbidden"
  ELSE "TypeError"

\* GET /api/events/:eventId/song-requests: optionalAuth, getSongRequests
getSongRequests(user, ev) ==
  /\ View(IF ViewAccess(user, ev) # "next" THEN ViewAccess(user, ev) ELSE "OK")

\* the last segment of the path is an id, not a word
IsObjectId(id) == id # "queue"

\* GET /api/events/:eventId/song-requests/:id: optionalAuth, getSongRequest.
\* The route is declared before `/queue`, so a GET of the queue is answered
\* here, with 'queue' for the id.
getSongRequest(user, ev, id) ==
  /\ View(IF ViewAccess(user, ev) # "next" THEN ViewAccess(user, ev)
          ELSE IF ~IsObjectId(id) THEN "CastError"
          ELSE IF ~FindInEvent(id, ev) THEN "NotFound"
          ELSE "OK")

\* Callers: no session, the administrator and a manager.
AccessCallers == {"anon", "adm", "m1"}
\* the request and the song the calls name
AccessRequests == {"r1"}
AccessSongs == {[title |-> "Sandstorm", extId |-> None]}
\* a public event and a private one
AccessEvents == {"e0", "e1"}
AccessBodies == {[requiresApproval |-> TRUE]}
\* the person administered, and the role asked for
AccessTargets == {"m1"}
AccessPersonBodies == {[role |-> "Admin"]}
ProfileBodies == {[role |-> "Admin"], [organizationName |-> "org"]}

\* Every handler that writes, called with and without a session, one
\* request at a time.
NextAccess ==
  \/ seedData
  \/ \E u \in AccessCallers, e \in AccessEvents :
       \/ activateEvent(u, e)
       \/ deactivateEvent(u, e)
       \/ \E body \in AccessBodies : updateEvent(u, e, body)
       \/ joinEvent(u, e)
       \/ \E song \in AccessSongs : nops < MaxCalls /\ createSongRequest(u, e, song)
       \/ \E id \in AccessRequests :
            /\ nops < MaxCalls
            /\ \/ toggleLike(u, e, id)
               \/ updateSongRequest(u, e, id)
               \/ deleteSongRequest(u, e, id)
       \/ \E id \in AccessRequests :
            \/ approveSongRequest(1, u, e, id)
            \/ rejectSongRequest(1, u, e, id, "explicit")
            \/ CallMarkAsPlayed(1, id, u)
  \/ \E email \in GuestEmails, e \in AccessEvents : joinEventAsGuest(email, e)
  \/ \E u \in AccessCallers, target \in AccessTargets :
       \/ \E body \in AccessPersonBodies : updatePerson(u, target, body)
       \/ deactivatePerson(u, target)
       \/ activatePerson(u, target)
       \/ deletePerson(u, target)
  \/ \E u \in AccessCallers, body \in ProfileBodies : updateProfile(u, body)
  \/ \E u \in AccessCallers, e \in AccessEvents :
       \/ getEvent(u, e)
       \/ getSongRequests(u, e)
       \/ \E id \in AccessRequests \cup {"queue"} : getSongRequest(u, e, id)
  \/ PreSaveQuery(1)
  \/ Save(1)

SpecAccess == Init /\ [][NextAccess]_vars
----------------------------------------------------------------------------
\* Properties of access.

\* the caller has no session: no token of a stored, active person
Unauthenticated(user) ==
  user \notin DOMAIN persons \/ ~persons[user].isActive

\* a call by `user` of a handler that writes and whose route names protect
ProtectedCall(user, ev) ==
  \/ activateEvent(user, ev)
  \/ deactivateEvent(user, ev)
  \/ \E body \in AccessBodies : updateEvent(user, ev, body)
  \/ joinEvent(user, ev)
  \/ \E song \in AccessSongs : createSongRequest(user, ev, song)
  \/ \E id \in AccessRequests :
       \/ toggleLike(user, ev, id)
       \/ updateSongRequest(user, ev, id)
       \/ deleteSongRequest(user, ev, id)
       \/ approveSongRequest(1, user, ev, id)
       \/ rejectSongRequest(1, user, ev, id, "explicit")
       \/ CallMarkAsPlayed(1, id, user)
  \/ \E target \in AccessTargets :
       \/ \E body \in AccessPersonBodies : updatePerson(user, target, body)
       \/ deactivatePerson(user, target)
       \/ activatePerson(user, target)
       \/ deletePerson(user, target)
  \/ \E body \in ProfileBodies : updateProfile(user, body)

\* the call is answered 401 and nothing is written or loaded
Denied ==
  /\ res' = "Unauthorized"
  /\ UNCHANGED <<persons, events, requests, guests, proc>>

ApprovedOf(user, ev) ==
  \/ isMember(user, ev)
  \/ \E g \in guests : g.event = ev /\ g.email = user /\ g.isApproved

\* the principals the private event may be viewed by
MayView(user, ev) ==
  /\ user \in DOMAIN persons
  /\ \/ persons[user].role = "Admin"
     \/ events[ev].manager = user
     \/ ApprovedOf(user, ev)

\* C15: a private event, its song requests and its queue are shown to
\* exactly the Admin, the event's own Manager and the approved participants
\* of the event; every other caller is denied.
PrivateViewExactly ==
  [][ \A u \in AccessCallers, e \in AccessEvents :
        (e \in DOMAIN events /\ ~events[e].isPublic)
          => /\ getEvent(u, e) => (res' = "OK" <=> MayView(u, e))
             /\ getSongRequests(u, e) => (res' = "OK" <=> MayView(u, e))
             /\ getSongRequest(u, e, "queue") => (res' = "OK" <=> MayView(u, e))
    ]_vars
----------------------------------------------------------------------------
\* The queries of the SongRequest model, over stores drawn from small sets.

\* number of requests in a drawn store
MaxStored == 2
\* the last minute a deadline or a query falls in
MaxNow == 3

StoredIds == 1..MaxStored
Deadlines == 1..MaxNow
\* `new Date()` at the time of the query
Nows == 0..MaxNow
QueryEvents == {"e0", "e2"}

\* the one-to-one sequences over a set of ids
Orderings(S) ==
  {s \in [1..Cardinality(S) -> S] : \A i, j \in DOMAIN s : i # j => s[i] # s[j]}

\* the requests a drawn store holds: flagged ones with any deadline or none,
\* unflagged ones with no deadline or an early one
StoredBombs ==
  {[NewRequest(ev, "p2", "Stay", None, st, <<>>)
      EXCEPT !.isTimeBomb = b[1], !.timeBombExpiresAt = b[2]] :
     ev \in QueryEvents, st \in {"Pending", "Approved", "Played"},
     b \in ({TRUE} \X ({NoDate} \cup Deadlines)) \cup ({FALSE} \X {NoDate, 1})}

InitTimeBombs ==
  /\ persons = SeedPersons
  /\ events = SeedEvents
  /\ requests \in [StoredIds -> StoredBombs]
  /\ guests = {}
  /\ proc = [p \in Procs |-> Idle]
  /\ res = <<>>
  /\ emitted = <<>>
  /\ nops = 0

\* a deadline that is reached counts as still running
UnexpiredOrDue(doc, now) ==
  doc.timeBombExpiresAt # NoDate /\ doc.timeBombExpiresAt >= now

\* `timeBombExpiresAt: { $gt: new Date() }`
Unexpired(doc, now) ==
  doc.timeBombExpiresAt # NoDate /\ doc.timeBombExpiresAt > now

\* the documents the filter of findTimeBombs matches
TimeBombFilter(ev, now) ==
  {id \in DOMAIN requests :
     /\ requests[id].event = ev
     /\ requests[id].isTimeBomb
     /\ Unexpired(requests[id], now)
     /\ requests[id].status \in {"Pending", "Approved"}}

\* statics.findTimeBombs(eventId): the matches, sorted by timeBombExpiresAt
\* ascending; documents of one deadline come in any order
findTimeBombs(ev, now) ==
  /\ \E s \in Orderings(TimeBombFilter(ev, now)) :
       /\ \A i \in 1..(Len(s) - 1) :
            requests[s[i]].timeBombExpiresAt <= requests[s[i + 1]].timeBombExpiresAt
       /\ res' = s
  /\ UNCHANGED <<persons, events, requests, guests, proc, emitted, nops>>

NextTimeBombs ==
  \E ev \in QueryEvents, now \in Nows : findTimeBombs(ev, now)

SpecTimeBombs == InitTimeBombs /\ [][NextTimeBombs]_vars

\* the ids a result lists
Listed(s) == {s[i] : i \in DOMAIN s}

\* a TimeBomb request of the event that is Pending or Approved and has a
\* deadline
RunningBomb(id, ev) ==
  /\ requests[id].event = ev
  /\ requests[id].isTimeBomb
  /\ requests[id].status \in {"Pending", "Approved"}
  /\ requests[id].timeBombExpiresAt # NoDate

findQueue(store, ev) ==
  {s \in Orderings({id \in DOMAIN store :
                      store[id].event = ev /\ store[id].status = "Approved"}) :
     \A i \in 1..(Len(s) - 1) :
       store[s[i]].queuePosition <= store[s[i + 1]].queuePosition}

\* the request enters Approved in this step
BecomesApproved(id) ==
  /\ id \in DOMAIN requests /\ id \in DOMAIN requests'
  /\ requests[id].status # "Approved"
  /\ requests'[id].status = "Approved"

\* C17: the playback queue of an event lists exactly its Approved requests
\* by ascending queuePosition, and that order is the order of approval: a
\* request that has just been approved is the last of the queue, whatever
\* the likes and priorities are.
QueueIsApprovalOrder ==
  [][ \A id \in DOMAIN requests :
        BecomesApproved(id)
          => \A s \in findQueue(requests', requests'[id].event) :
               /\ Listed(s) = {o \in DOMAIN requests' :
                                 /\ requests'[o].event = requests'[id].event
                                 /\ requests'[o].status = "Approved"}
               /\ s[Len(s)] = id
    ]_vars
\* the priorities, like counts and creation times of a drawn store
Priorities == {0, 1}
LikeCounts == {0, 1}
CreatedAts == {1, 2}
\* the status asked for: none, or Pending for the review queue
StatusFilters == {None, "Pending"}

StoredForReview ==
  {[NewRequest(ev, "p2", "Stay", None, st, IF n = 0 THEN <<>> ELSE <<"p0">>)
      EXCEPT !.priority = pr, !.likeCount = n, !.createdAt = t] :
     ev \in QueryEvents, st \in {"Pending", "Approved"},
     pr \in Priorities, n \in LikeCounts, t \in CreatedAts}

InitReview ==
  /\ persons = SeedPersons
  /\ events = SeedEvents
  /\ requests \in [StoredIds -> StoredForReview]
  /\ guests = {}
  /\ proc = [p \in Procs |-> Idle]
  /\ res = <<>>
  /\ emitted = <<>>
  /\ nops = 0

\* the same keys with the newest request first
SortsBeforeNewest(a, b) ==
  \/ a.priority > b.priority
  \/ a.priority = b.priority /\ a.likeCount > b.likeCount
  \/ a.priority = b.priority /\ a.likeCount = b.likeCount /\ a.createdAt > b.createdAt

\* `sort({ priority: -1, likeCount: -1, createdAt: 1 })`: a comes strictly
\* before b
SortsBefore(a, b) ==
  \/ a.priority > b.priority
  \/ a.priority = b.priority /\ a.likeCount > b.likeCount
  \/ a.priority = b.priority /\ a.likeCount = b.likeCount /\ a.createdAt < b.createdAt

\* statics.findByEvent(eventId, status = null)
findByEvent(ev, status) ==
  /\ \E s \in Orderings({id \in DOMAIN requests :
                           /\ requests[id].event = ev
                           /\ status # None => requests[id].status = status}) :
       /\ \A i, j \in DOMAIN s :
            i < j => ~SortsBefore(requests[s[j]], requests[s[i]])
       /\ res' = s
  /\ UNCHANGED <<persons, events, requests, guests, proc, emitted, nops>>

NextReview ==
  \E ev \in QueryEvents, status \in StatusFilters : findByEvent(ev, status)

SpecReview == InitReview /\ [][NextReview]_vars

\* C18: the review queue of an event lists its Pending requests, each once,
\* by priority descending, then likeCount descending, then createdAt
\* ascending: of two Pending requests of equal priority and likeCount the
\* one submitted earlier comes first.
ReviewQueueOrder ==
  [][ \A ev \in QueryEvents :
        findByEvent(ev, "Pending")
          => /\ Listed(res') = {id \in DOMAIN requests :
                                  requests[id].event = ev /\ requests[id].status = "Pending"}
             /\ Len(res') = Cardinality(Listed(res'))
             /\ \A i, j \in DOMAIN res' :
                  LET a == requests[res'[i]]
                      b == requests[res'[j]]
                  IN i < j
                       => /\ a.priority >= b.priority
                          /\ a.priority = b.priority => a.likeCount >= b.likeCount
                          /\ (a.priority = b.priority /\ a.likeCount = b.likeCount)
                               => a.createdAt <= b.createdAt
    ]_vars

\* two Pending requests of equal priority and likeCount were listed, the
\* earlier one first
EarlierSubmittedFirst ==
  /\ Len(res) = 2
  /\ requests[res[1]].status = "Pending" /\ requests[res[2]].status = "Pending"
  /\ requests[res[1]].priority = requests[res[2]].priority
  /\ requests[res[1]].likeCount = requests[res[2]].likeCount
  /\ requests[res[1]].createdAt < requests[res[2]].createdAt
\* the role of a stored person differs after the step
RoleChanged ==
  \E x \in DOMAIN persons \cap DOMAIN persons' :
    persons'[x].role # persons[x].role

\* the caller holds the Admin role
IsAdmin(user) ==
  user \in DOMAIN persons /\ persons[user].role = "Admin"

PersonsNeverRemoved ==
  [][ /\ DOMAIN persons \subseteq DOMAIN persons'
      /\ \A u \in AccessCallers, target \in AccessTargets :
           (deletePerson(u, target) /\ res' = "OK")
             => target \in DOMAIN persons' /\ ~persons'[target].isActive
    ]_vars
----------------------------------------------------------------------------
\* Events: creation, dates, and the roster under interleaved joins.

\* the id Event.create() gives the one event created here
NewEventId == "e4"

\* POST /api/events: protect, authorize('Manager','Admin'),
\* validateEventCreation, createEvent.  The validators test startTime and
\* endTime, which are no paths of the schema; the bodies here pass them and
\* carry the schema's startDate and endDate.  Event.create() runs the
\* pre('save') hook.
createEvent(user, body) ==
  LET doc == [NewEvent(user, FALSE) EXCEPT !.startDate = body.startDate,
                                           !.endDate = body.endDate]
      out == IF ~protect(user) THEN "Unauthorized"
             ELSE IF ~authorize(user, {"Manager", "Admin"}) THEN "Forbidden"
             ELSE eventPreSave(doc)
  IN
  /\ nops < MaxCalls
  /\ NewEventId \notin DOMAIN events
  /\ nops' = nops + 1
  /\ res' = out
  /\ emitted' = <<>>
  /\ events' = IF out = "OK"
                 THEN [e \in DOMAIN events \cup {NewEventId} |->
                         IF e = NewEventId THEN doc ELSE events[e]]
                 ELSE events
  /\ UNCHANGED <<persons, requests, guests, proc>>

\* POST /api/events/:id/leave.  The handler looks for the caller with
\* Member.person, a field no roster entry has: on a roster with entries the
\* comparison throws, on an empty one nobody is found.  The splice and the
\* save are never reached.
leaveEvent(user, ev) ==
  /\ nops < MaxCalls
  /\ Respond(IF JoinGate(user, ev) # "OK" THEN JoinGate(user, ev)
             ELSE IF Len(events[ev].Members) > 0 THEN "TypeError"
             ELSE "NotMember")

\* joinEvent up to its `await event.save()`: the event is read and checked,
\* the entry is pushed on the handler's copy
joinEventLoad(p, user, ev) ==
  LET out == IF JoinGate(user, ev) # "OK" THEN JoinGate(user, ev)
             ELSE JoinChecks(user, events[ev])
  IN
  /\ nops < MaxCalls
  /\ proc[p] = Idle
  /\ nops' = nops + 1
  /\ emitted' = <<>>
  /\ IF out = "OK"
       THEN /\ proc' = [proc EXCEPT ![p] =
                          [pc |-> "joining", op |-> "joinEvent", by |-> user,
                           ev |-> ev, doc |-> events[ev]]]
            /\ UNCHANGED res
       ELSE /\ res' = out
            /\ UNCHANGED proc
  /\ UNCHANGED <<persons, events, requests, guests>>

\* event.save() of joinEvent: the hook runs on the handler's copy, and the
\* pushed entry reaches the store as a $push, which tests neither the
\* version nor the roster the store holds by now
joinEventSave(p) ==
  /\ proc[p].pc = "joining"
  /\ proc' = [proc EXCEPT ![p] = Idle]
  /\ res' = eventPreSave(proc[p].doc)
  /\ events' = IF eventPreSave(proc[p].doc) = "OK"
                 THEN [events EXCEPT ![proc[p].ev].Members =
                         Append(@, [user |-> proc[p].by, isApproved |-> TRUE])]
                 ELSE events
  /\ UNCHANGED <<persons, requests, guests, emitted, nops>>

\* the callers and the event of the roster runs, the bodies of the updates
\* and of the creations: an end at or before the start, a later start, a
\* roster of one place
RosterCallers == {"adm", "m0", "p0"}
RosterEvents == {"e0"}
RosterBodies == {[endDate |-> SeedStart], [maxMembers |-> SmallMax]}
CreateBodies == {[startDate |-> SeedStart, endDate |-> SeedEnd],
                 [startDate |-> SeedEnd, endDate |-> SeedStart]}

NextEvents ==
  \/ seedData
  \/ \E u \in RosterCallers, e \in RosterEvents :
       \/ activateEvent(u, e)
       \/ deactivateEvent(u, e)
       \/ \E body \in RosterBodies : updateEvent(u, e, body)
       \/ leaveEvent(u, e)
       \/ \E p \in Procs : joinEventLoad(p, u, e)
  \/ \E p \in Procs : joinEventSave(p)
  \/ \E u \in RosterCallers, body \in CreateBodies : createEvent(u, body)

SpecEvents == Init /\ [][NextEvents]_vars

\* C21: every stored event has its startDate before its endDate, after
\* creation and after every update, activation, deactivation, join or leave.
StartBeforeEnd ==
  \A e \in DOMAIN events : events[e].startDate < events[e].endDate
\* C22: each user appears at most once in the roster of an event, under any
\* sequence or interleaving of joinEvent and leaveEvent calls.
RosterUniquePerUser ==
  \A e \in DOMAIN events :
    \A i, j \in 1..Len(events[e].Members) :
      events[e].Members[i].user = events[e].Members[j].user => i = j

\* C30: no join takes the roster of an event whose maxMembers is set beyond
\* maxMembers, under any sequence or interleaving of joinEvent calls: the
\* roster a join has written has at most maxMembers entries.
RosterWithinMaxMembers ==
  [][\A e \in DOMAIN events :
       (events'[e].Members # events[e].Members /\ events'[e].maxMembers # NoMax)
         => Len(events'[e].Members) <= events'[e].maxMembers]_vars
----------------------------------------------------------------------------
\* Properties of interleaved likes, approvals and rejections.

\* the handler in slot p, which read the request before user u's like was
\* written, saves its own like onto a request that by now holds u's like
LikesAfter(p, u) ==
  /\ ReturnsFrom(p, "addLike")
  /\ res' = "saved"
  /\ proc[p].orig.status = "Pending"
  /\ u # proc[p].by
  /\ ~hasUserLiked(proc[p].orig, proc[p].by)
  /\ requests[proc[p].id].likes = Append(proc[p].orig.likes, u)

\* C23: when two different users like the same Pending request, each
\* reading it before the other writes, the stored request ends with both
\* users in likes once each and with a likeCount that counts both (2 on a
\* request without likes).
ConcurrentLikesCounted ==
  [][ \A p \in Procs, u \in PersonIds :
        LikesAfter(p, u)
        => /\ requests'[proc[p].id].likes
                = proc[p].orig.likes \o <<u, proc[p].by>>
           /\ requests'[proc[p].id].likeCount = Len(proc[p].orig.likes) + 2
    ]_vars

\* C24: when an approve and a reject of the same Pending request interleave,
\* both reading status Pending before either writes, the approve does not
\* turn the request Approved once the reject is stored: no stored request
\* goes from Rejected to Approved.
NoRejectedToApproved ==
  [][ \A p \in Procs :
        ( /\ ReturnsFrom(p, "approve")
          /\ proc[p].orig.status = "Pending"
          /\ requests[proc[p].id].status = "Rejected" )
        => requests'[proc[p].id].status # "Approved"
    ]_vars

\* the queuePosition claimed for a request approved in event ev: 1 + the
\* highest queuePosition of the event's Pending and Approved requests, 1
\* when none of them has one
ClaimedPosition(ev) ==
  LET held == {requests[r].queuePosition :
                 r \in {x \in DOMAIN requests :
                          /\ requests[x].event = ev
                          /\ requests[x].status \in {"Pending", "Approved"}
                          /\ requests[x].queuePosition # NoPos}}
  IN IF held = {} THEN 1 ELSE Max(held) + 1

\* C25: an approve of a Pending request that succeeds stores status
\* Approved and the queuePosition 1 + the highest queuePosition among the
\* event's Pending and Approved requests, or 1 when none has a position.
ApproveSetsNextPosition ==
  [][ \A p \in Procs :
        ( /\ ReturnsFrom(p, "approve")
          /\ proc[p].orig.status = "Pending"
          /\ requests[proc[p].id].status = "Pending"
          /\ res' = "OK" )
        => /\ requests'[proc[p].id].status = "Approved"
           /\ requests'[proc[p].id].queuePosition
                = ClaimedPosition(requests[proc[p].id].event)
    ]_vars

\* C26: a reject of a Pending or Approved request that succeeds stores
\* status Rejected, the rejecter and the reason, and leaves the request's
\* queuePosition, likes, likeCount and priority and the queuePosition of
\* every other request as they were.
RejectFrame ==
  [][ \A p \in Procs :
        ( /\ ReturnsFrom(p, "reject")
          /\ requests[proc[p].id].status \in {"Pending", "Approved"}
          /\ res' = "OK" )
        => LET id == proc[p].id IN
           /\ requests'[id].status = "Rejected"
           /\ requests'[id].rejectedBy = proc[p].by
           /\ requests'[id].rejectionReason = proc[p].arg
           /\ requests'[id].queuePosition = requests[id].queuePosition
           /\ requests'[id].likes = requests[id].likes
           /\ requests'[id].likeCount = requests[id].likeCount
           /\ requests'[id].priority = requests[id].priority
           /\ \A o \in DOMAIN requests \ {id} :
                requests'[o].queuePosition = requests[o].queuePosition
    ]_vars

\* C29: no two Approved requests of one event have the same queuePosition,
\* two interleaved approvals of two Pending requests of the event included.
ApprovedPositionsDistinct ==
  \A a, b \in DOMAIN requests :
    ( /\ a # b
      /\ requests[a].event = requests[b].event
      /\ requests[a].status = "Approved"
      /\ requests[b].status = "Approved" )
    => requests[a].queuePosition # requests[b].queuePosition
----------------------------------------------------------------------------
\* TimeBomb expiry: the hook on creation and on later saves.

\* the id SongRequest.create() gives the one request created here
NewRequestId == "r7"

\* A caller of the model creates a request, TimeBomb or not, at the minute
\* `now`: the document takes the schema defaults and runs the pre('save')
\* hook before it is inserted.
CallCreate(by, ev, bomb, now) ==
  LET doc == [NewRequest(ev, by, "Sandstorm", None, "Pending", <<>>)
                EXCEPT !.isTimeBomb = bomb, !.createdAt = now]
      sent == preSave(doc, TimeBombExpiry(ev, now), NoPos)
  IN
  /\ DOMAIN requests # {}
  /\ NewRequestId \notin DOMAIN requests
  /\ requests' = [r \in DOMAIN requests \cup {NewRequestId} |->
                    IF r = NewRequestId THEN sent ELSE requests[r]]
  /\ res' = "saved"
  /\ emitted' = <<>>
  /\ UNCHANGED <<persons, events, guests, proc, nops>>

\* the events of the TimeBomb runs (e0 with TimeBomb enabled, e1 without),
\* the requests liked and approved, the creator, and the bodies that change
\* an event's TimeBomb settings
BombEvents == {"e0", "e1"}
BombRequests == {"r6", NewRequestId}
BombCreators == {"p0"}
BombBodies == {[timeBombEnabled |-> TRUE], [timeBombDuration |-> 60]}

NextTimeBomb ==
  \/ seedData
  \/ \E by \in BombCreators, e \in BombEvents, bomb \in BOOLEAN,
        now \in HookClock : CallCreate(by, e, bomb, now)
  \/ \E e \in BombEvents, body \in BombBodies : updateEvent("adm", e, body)
  \/ \E p \in Procs, id \in BombRequests :
       \/ \E u \in LikeUsers : CallAddLike(p, id, u)
       \/ \E e \in BombEvents : approveSongRequest(p, "adm", e, id)
  \/ \E p \in Procs :
       \/ AddLikeThrows(p)
       \/ PreSaveQuery(p)
       \/ Save(p)

SpecTimeBomb == Init /\ [][NextTimeBomb]_vars

\* C27: timeBombExpiresAt of a request is written at most once, when the
\* request is created, with the creation time plus the event's
\* timeBombDuration, and only for a TimeBomb request of an event with
\* TimeBomb enabled; no later step sets or changes it.
ExpiryWrittenOnceAtCreation ==
  [][ \A r \in DOMAIN requests' :
        IF r \in DOMAIN requests
          THEN requests'[r].timeBombExpiresAt = requests[r].timeBombExpiresAt
        ELSE requests'[r].timeBombExpiresAt # NoDate
               => /\ requests'[r].isTimeBomb
                  /\ events'[requests'[r].event].timeBombEnabled
                  /\ requests'[r].timeBombExpiresAt
                       = requests'[r].createdAt
                           + events'[requests'[r].event].timeBombDuration
    ]_vars
----------------------------------------------------------------------------
\* Domain events.

\* C28: an approve or reject that succeeds emits exactly one domain event,
\* with the new state stored; one that fails emits none and leaves the
\* stored requests as they were; and a like of a stored request by a user
\* who passes the guards emits exactly one domain event.
OneEventAfterPersist ==
  [][ /\ \A p \in Procs :
           (Returns(p) /\ proc[p].handler)
           => IF res' = "OK"
                THEN /\ Len(emitted') = 1
                     /\ requests'[proc[p].id].status
                          = Modified(proc[p]).status
              ELSE emitted' = <<>> /\ requests' = requests
      /\ \A u \in PersonIds, e \in EventIds, id \in RequestIds :
           ( /\ toggleLike(u, e, id)
             /\ Participates(u, e)
             /\ FindInEvent(id, e) )
           => Len(emitted') = 1
    ]_vars
====
